---- MODULE Spec2Model ----
(***************************************************************************)
(* Rebel Radio: the broadcast store (services/supabaseService.ts), the     *)
(* producer flow that drives it (App: handleGenerate, refreshAppData) and  *)
(* the listener's gapless playback scheduler (ObserverView: queueAndPlay). *)
(*                                                                         *)
(* Time is counted in ticks of one quota window (24 h), so oneDay is one   *)
(* tick; the audio device clock is counted in ticks of 50 ms.  A           *)
(* broadcast is identified by a serial                                     *)
(* number; its script carries the same number, which is what survives the  *)
(* column mapping of the remote table.                                     *)
(***************************************************************************)
EXTENDS Integers, Sequences, FiniteSets, TLC

\* ---------------------------------------------------------------- bounds
MaxSaves == 1        \* broadcasts the producer generates in one run
MaxProducerSaves == 6   \* ... in a run of handleGenerate alone
MaxRefresh == 1      \* times the refresh timer fires in one run
MaxNow == 2          \* last tick of the wall clock
MaxClock == 5        \* last tick of the audio device clock
MaxDur == 3          \* longest decoded buffer, in device ticks
MaxItems == 3        \* broadcasts delivered to the listener in one run
MaxEvents == 2       \* rows inserted by other clients in one run
MaxFeedSaves == 1    \* broadcasts generated in a session that also listens
MaxPlays == 3        \* playBroadcast calls in one run
MaxRows == 31        \* rows other clients insert into broadcasts in one run
MaxPcm == 3          \* bytes of the longest PCM payload
MaxCalls == 3        \* handleGenerate calls in one run
MaxRaceSaves == 2    \* saveBroadcast calls of each of two concurrent sessions

\* ------------------------------------------------------ program constants
oneDay == 1          \* 86400000 ms, in ticks of 24 h
QuotaLimit == 5      \* handleGenerate: currentQuota.count >= 5
LocalCap == 1        \* saveToLocal: slice(0, 1)
Epsilon == 2         \* onended: 0.1 s, in device ticks of 50 ms
ListLimit == 30      \* getBroadcasts: limit(30)

NoQuota == [count |-> -1, resetAt |-> -1]   \* no quota row / no stored record
\* An audio payload: none (the empty string, null or undefined), or PCM in
\* base64 that decodes to a buffer of a duration.
NoAudio == [kind |-> "empty", duration |-> 0]
SomeAudio == [kind |-> "pcm", duration |-> 1]

NoBroadcast ==
  [id |-> <<"none", 0>>, script |-> 0, audioData |-> NoAudio, createdAt |-> 0]
NoRow == [id |-> 0]
Sessions == {1, 2}   \* two tabs of one browser: one client id, one localStorage
Calls == 1..MaxCalls
NoInput == [ls |-> "-", ins |-> "-", sel |-> "-", rup |-> "-", ups |-> "-"]

\* Outcome of one remote call: success, an error result carrying the
\* schema-mismatch code, an error result with any other code, or a thrown
\* exception (network failure).
RemoteOutcomes == {"ok", "PGRST205", "error", "throw"}

\* Outcome of an upsert: the code never reads its error result, so the
\* error code makes no difference.
UpsertOutcomes == {"ok", "error", "throw"}

\* Behaviour of localStorage during one handler: working; full for a large
\* value (the history with its audio payload) only; full for every write;
\* unavailable (every access raises).
LsModes == {"ok", "histFull", "full", "unavailable"}

LsGetThrows(ls) == ls = "unavailable"
LsSetThrows(ls) == ls \in {"full", "unavailable"}
LsSetHistThrows(ls) == ls \in {"histFull", "full", "unavailable"}

Max(a, b) == IF a >= b THEN a ELSE b
Take(s, n) == SubSeq(s, 1, IF Len(s) < n THEN Len(s) ELSE n)

VARIABLES
  supabase,             \* a remote client was created (isSupabaseConfigured)
  schemaErrorDetected,
  lastCallSuccessful,
  clientId,             \* localStorage holds rebel_radio_client_id
  localHistory,         \* localStorage[LOCAL_STORAGE_KEY], newest first
  localQuota,           \* localStorage[LOCAL_QUOTA_KEY]
  remoteBroadcasts,     \* rows of table broadcasts, in storage order: this
                        \* client's rows newest first, then the other clients'
  remoteQuota,          \* this client's row of table quotas
  now,                  \* Date.now()
  pc,                   \* position of handleGenerate
  rpc,                  \* position of refreshAppData
  refreshes,            \* times refreshAppData has started
  radioState,           \* App radioState
  newBroadcast,         \* handleGenerate's newBroadcast
  nextId,               \* broadcasts generated so far
  \* what the last step did (observation only)
  op,                   \* the service function that ran last
  attempted,            \* ... and whether it issued a remote call
  raised,               \* ... and whether it raised to its caller
  ret,                  \* ... and its return value
  inp,                  \* ... and the outcomes the environment gave it
  sinceSave,            \* the save completed since the last getBroadcasts
  listFor,              \* the save a getBroadcasts step is the next list of
  saved,                \* saveBroadcast calls completed so far
  \* the listener (ObserverView)
  isReady,              \* the audio context and the analyser exist
  currentTime,          \* audioContext.currentTime
  nextStartTime,        \* nextStartTimeRef.current
  obsRadioState,        \* ObserverView radioState
  decoding,             \* queueAndPlay calls waiting at their await
  sources,              \* the sources started, in the order of start(); each
                        \* keeps the device time of its queueAndPlay call
                        \* (called), the number of sources started by then
                        \* (prev), the device time at start() (sched) and
                        \* the number of its delivery (seq)
  delivered,            \* broadcasts handed to queueAndPlay so far
  \* the realtime channel (subscribeToNewBroadcasts, ObserverView.useEffect)
  channel,              \* what the effect holds: "unset" before it runs,
                        \* "null", "open", or "closed" after its cleanup
  subViable,            \* the remote was viable when the effect subscribed
  feed,                 \* INSERT events emitted to the channel, not yet handled
  emitted,              \* INSERT events emitted so far
  missed,               \* rows inserted after the channel was unsubscribed
  callbacks,            \* the broadcasts onNewBroadcast was invoked with
  \* the single-shot player (App.playBroadcast)
  sourceRef,            \* App sourceRef.current: 0 (null) or an index of
                        \* appSources
  appSources,           \* the sources playBroadcast started: "playing",
                        \* "stopped" (stop() called, ended event pending) or
                        \* "done" (ended event delivered)
  appDecoding,          \* playBroadcast calls waiting at their await
  plays,                \* playBroadcast calls so far
  \* the PCM codec (geminiService)
  pcm,                  \* the PCM bytes the content generator produced
  sampleRate,           \* the rate passed to createWavBlob
  audioData,            \* their base64 text, as a sequence of sextets and pads
  blob,                 \* the bytes of the Blob createWavBlob returned
  bytes,                \* the Uint8Array decodeBase64 returned
  cop,                  \* the codec function that ran last
  \* the two row mappings (subscribeToNewBroadcasts, getBroadcasts)
  tableRow,             \* a row of table broadcasts, with all its columns
  live,                 \* the Broadcast the channel's handler made of it
  listed,               \* the Broadcast getBroadcasts made of it
  \* two sessions (tabs) of one client, each in saveBroadcast
  sessPc,               \* where each session's saveBroadcast is: "idle",
                        \* "read" (insert done, at await getQuota()) or
                        \* "write" (quota read, at await upsert)
  sessQuota,            \* the quota each session's getQuota returned
  sessSaves,            \* saveBroadcast calls each session has started
  \* the transmit button of one producer session (App)
  hgPc,                 \* where each handleGenerate call is: "none" (not
                        \* started), "quota" (at await db.getQuota()),
                        \* "generate" (at await generateBroadcastData),
                        \* "save" (at await db.saveBroadcast), "refresh"
                        \* (at the awaits of lines 80-83) or "done"
  prompt,               \* the prompt state: "" or "text"
  uiQuota               \* quota.count of the quota state (setQuota)

svcVars == <<supabase, schemaErrorDetected, lastCallSuccessful, clientId,
             localHistory, localQuota, remoteBroadcasts, remoteQuota>>
appVars == <<pc, rpc, refreshes, radioState, newBroadcast, nextId>>
obsVars == <<op, attempted, raised, ret, inp, sinceSave, listFor, saved>>
playVars == <<isReady, currentTime, nextStartTime, obsRadioState, decoding,
              sources, delivered>>
feedVars == <<channel, subViable, feed, emitted, missed, callbacks>>
playerVars == <<sourceRef, appSources, appDecoding, plays>>
codecVars == <<pcm, sampleRate, audioData, blob, bytes, cop>>
mapVars == <<tableRow, live, listed>>
raceVars == <<sessPc, sessQuota, sessSaves>>
clickVars == <<hgPc, prompt, uiQuota>>
vars == <<svcVars, now, appVars, obsVars, playVars, feedVars, playerVars,
          codecVars, mapVars, raceVars, clickVars>>

\* The service's state as one value, so that its functions compose.
Svc ==
  [supabase |-> supabase, sed |-> schemaErrorDetected,
   lcs |-> lastCallSuccessful, clientId |-> clientId,
   localHistory |-> localHistory, localQuota |-> localQuota,
   remoteBroadcasts |-> remoteBroadcasts, remoteQuota |-> remoteQuota]

SetSvc(s) ==
  /\ supabase' = s.supabase
  /\ schemaErrorDetected' = s.sed
  /\ lastCallSuccessful' = s.lcs
  /\ clientId' = s.clientId
  /\ localHistory' = s.localHistory
  /\ localQuota' = s.localQuota
  /\ remoteBroadcasts' = s.remoteBroadcasts
  /\ remoteQuota' = s.remoteQuota

\* Result of a service function: the state it leaves, its return value,
\* whether it raised, and whether it issued a remote call.
Res(s, r, ra, at) == [s |-> s, ret |-> r, raised |-> ra, att |-> at]

\* ----------------------------------------------------------- the PCM codec

DefaultSampleRate == 24000   \* createWavBlob: sampleRate: number = 24000
Pad == 64                    \* the character '=' of a base64 text

\* Byte values and sample rates the payloads are drawn from.
SampleBytes == {0, 1, 127, 128, 255}
SampleRates == {8000, DefaultSampleRate, 44100, 1073741823}
PcmPayloads == UNION {[1..n -> SampleBytes] : n \in 0..MaxPcm}

\* The base64 text of a byte sequence (RFC 4648), each character given by
\* its 6-bit value: three bytes make four characters; a last group of one
\* or two bytes is padded.
RECURSIVE Base64Encode(_)
Base64Encode(bs) ==
  IF Len(bs) = 0 THEN <<>>
  ELSE IF Len(bs) = 1 THEN
    <<bs[1] \div 4, (bs[1] % 4) * 16, Pad, Pad>>
  ELSE IF Len(bs) = 2 THEN
    LET n == bs[1] * 256 + bs[2] IN
    <<n \div 1024, (n \div 16) % 64, (n % 16) * 4, Pad>>
  ELSE
    LET n == bs[1] * 65536 + bs[2] * 256 + bs[3] IN
    <<n \div 262144, (n \div 4096) % 64, (n \div 64) % 64, n % 64>>
      \o Base64Encode(SubSeq(bs, 4, Len(bs)))

\* The char codes of the binary string that 6-bit values spell: four make
\* three, and the spare bits of a last group of three or two are dropped.
RECURSIVE SextetsToChars(_)
SextetsToChars(s) ==
  IF Len(s) = 0 THEN <<>>
  ELSE IF Len(s) = 2 THEN <<(s[1] * 64 + s[2]) \div 16>>
  ELSE IF Len(s) = 3 THEN
    LET n == (s[1] * 4096 + s[2] * 64 + s[3]) \div 4 IN
    <<n \div 256, n % 256>>
  ELSE
    LET n == s[1] * 262144 + s[2] * 4096 + s[3] * 64 + s[4] IN
    <<n \div 65536, (n \div 256) % 256, n % 256>>
      \o SextetsToChars(SubSeq(s, 5, Len(s)))

\* atob: one or two trailing pads of a text whose length is a multiple of
\* four are removed; a text that then has a pad in it, or a length of
\* 4k + 1, is rejected.
atob(base64) ==
  LET n == Len(base64)
      data == IF n > 0 /\ n % 4 = 0 /\ base64[n] = Pad
              THEN SubSeq(base64, 1, IF base64[n - 1] = Pad THEN n - 2
                                     ELSE n - 1)
              ELSE base64
  IN IF Len(data) % 4 = 1 \/ \E i \in 1..Len(data) : data[i] = Pad
       THEN [raised |-> TRUE, str |-> <<>>]
       ELSE [raised |-> FALSE, str |-> SextetsToChars(data)]

\* Mutant: the char codes are kept as 7-bit values.
decodeBase64_sevenBit(base64) ==
  LET binaryString == atob(base64) IN
  [raised |-> binaryString.raised,
   bytes |-> [i \in 1..Len(binaryString.str) |-> binaryString.str[i] % 128]]

\* bytes[i] = binaryString.charCodeAt(i), stored in a Uint8Array.
decodeBase64(base64) ==
  LET binaryString == atob(base64) IN
  [raised |-> binaryString.raised,
   bytes |-> [i \in 1..Len(binaryString.str) |-> binaryString.str[i] % 256]]

\* Mutant: the little-endian flag is forgotten.
UInt32LE_bigEndian(v) ==
  <<(v \div 16777216) % 256, (v \div 65536) % 256, (v \div 256) % 256,
    v % 256>>

\* view.setUint32(offset, v, true)
UInt32LE(v) ==
  <<v % 256, (v \div 256) % 256, (v \div 65536) % 256,
    (v \div 16777216) % 256>>

\* view.setUint32(offset, v, false)
UInt32BE(v) ==
  <<(v \div 16777216) % 256, (v \div 65536) % 256, (v \div 256) % 256,
    v % 256>>

\* view.setUint16(offset, v, true)
UInt16LE(v) == <<v % 256, (v \div 256) % 256>>

\* The 44 bytes of the header, in the order of their offsets.
WavHeader(length, rate) ==
  UInt32BE(1380533830) \o UInt32LE(36 + length) \o UInt32BE(1463899717)
    \o UInt32BE(1718449184) \o UInt32LE(16) \o UInt16LE(1) \o UInt16LE(1)
    \o UInt32LE(rate) \o UInt32LE(rate * 2) \o UInt16LE(2) \o UInt16LE(16)
    \o UInt32BE(1684108385) \o UInt32LE(length)

\* new Blob([wavHeader, pcmData.buffer])
createWavBlob(base64Pcm, rate) ==
  LET pcmData == decodeBase64(base64Pcm) IN
  [raised |-> pcmData.raised,
   blob |-> IF pcmData.raised THEN <<>>
            ELSE WavHeader(Len(pcmData.bytes), rate) \o pcmData.bytes]

\* ------------------------------------------------------------- the service

\* localStorage.getItem('rebel_radio_client_id'), created on first use.
getClientId(s, ls) ==
  IF LsGetThrows(ls) THEN Res(s, FALSE, TRUE, FALSE)
  ELSE IF s.clientId THEN Res(s, TRUE, FALSE, FALSE)
  ELSE IF LsSetThrows(ls) THEN Res(s, FALSE, TRUE, FALSE)
  ELSE Res([s EXCEPT !.clientId = TRUE], TRUE, FALSE, FALSE)

\* Mutant: the success flag is read before the schema flag.
getCloudStatusOf_connectedFirst(s) ==
  IF ~s.supabase THEN "offline"
  ELSE IF s.lcs THEN "connected"
  ELSE IF s.sed THEN "schema_error"
  ELSE "connecting"

getCloudStatusOf(s) ==
  IF ~s.supabase THEN "offline"
  ELSE IF s.sed THEN "schema_error"
  ELSE IF s.lcs THEN "connected"
  ELSE "connecting"

getCloudStatus == getCloudStatusOf(Svc)

\* Mutant: the guard forgets the schema flag.
RemoteViable_ignoresSchemaError(s) == s.supabase

\* The guard all three store functions share: supabase && !schemaErrorDetected.
RemoteViable(s) == s.supabase /\ ~s.sed

\* Mutant: every read of the record starts its window anew.
getLocalQuota_slidesWindow(s, t, ls) ==
  IF LsGetThrows(ls) THEN Res(s, NoQuota, TRUE, FALSE)
  ELSE IF s.localQuota = NoQuota
    THEN Res(s, [count |-> 0, resetAt |-> t + oneDay], FALSE, FALSE)
  ELSE LET refreshed == [count |-> IF t > s.localQuota.resetAt THEN 0
                                   ELSE s.localQuota.count,
                         resetAt |-> t + oneDay] IN
       IF LsSetThrows(ls) THEN Res(s, NoQuota, TRUE, FALSE)
       ELSE Res([s EXCEPT !.localQuota = refreshed], refreshed, FALSE, FALSE)

\* Mutant: the rollover moves resetAt but keeps the stale count.
getLocalQuota_keepsCount(s, t, ls) ==
  IF LsGetThrows(ls) THEN Res(s, NoQuota, TRUE, FALSE)
  ELSE IF s.localQuota = NoQuota
    THEN Res(s, [count |-> 0, resetAt |-> t + oneDay], FALSE, FALSE)
  ELSE IF t > s.localQuota.resetAt
    THEN LET refreshed == [count |-> s.localQuota.count,
                           resetAt |-> t + oneDay] IN
         IF LsSetThrows(ls) THEN Res(s, NoQuota, TRUE, FALSE)
         ELSE Res([s EXCEPT !.localQuota = refreshed], refreshed, FALSE, FALSE)
  ELSE Res(s, s.localQuota, FALSE, FALSE)

getLocalQuota(s, t, ls) ==
  IF LsGetThrows(ls) THEN Res(s, NoQuota, TRUE, FALSE)
  ELSE IF s.localQuota = NoQuota
    THEN Res(s, [count |-> 0, resetAt |-> t + oneDay], FALSE, FALSE)
  ELSE IF t > s.localQuota.resetAt
    THEN LET refreshed == [count |-> 0, resetAt |-> t + oneDay] IN
         IF LsSetThrows(ls) THEN Res(s, NoQuota, TRUE, FALSE)
         ELSE Res([s EXCEPT !.localQuota = refreshed], refreshed, FALSE, FALSE)
  ELSE Res(s, s.localQuota, FALSE, FALSE)

\* Mutant: a select that finds no row is handled like a thrown one.
getQuota_noRowReadsLocal(s, t, ls, sel, rup) ==
  IF RemoteViable(s) THEN
    LET cid == getClientId(s, ls) IN
    IF cid.raised THEN getLocalQuota(s, t, ls)
    ELSE IF sel # "ok" \/ cid.s.remoteQuota = NoQuota
      THEN [getLocalQuota(cid.s, t, ls) EXCEPT !.att = TRUE]
    ELSE
      LET s1 == [cid.s EXCEPT !.lcs = TRUE]
          quota == s1.remoteQuota
          refreshed == [count |-> 0, resetAt |-> t + oneDay]
      IN IF t > quota.resetAt
           THEN Res(IF rup = "ok" THEN [s1 EXCEPT !.remoteQuota = refreshed]
                    ELSE s1, refreshed, FALSE, TRUE)
           ELSE Res(s1, quota, FALSE, TRUE)
  ELSE getLocalQuota(s, t, ls)

\* sel: outcome of the select on quotas; rup: outcome of the fire-and-forget
\* upsert of the refreshed row.  A select that finds no row is an error
\* result of .single().
getQuota(s, t, ls, sel, rup) ==
  IF RemoteViable(s) THEN
    LET cid == getClientId(s, ls) IN
    IF cid.raised THEN getLocalQuota(s, t, ls)
    ELSE IF sel = "throw"
      THEN [getLocalQuota(cid.s, t, ls) EXCEPT !.att = TRUE]
    ELSE IF sel # "ok" \/ cid.s.remoteQuota = NoQuota
      THEN Res(cid.s, [count |-> 0, resetAt |-> t + oneDay], FALSE, TRUE)
    ELSE
      LET s1 == [cid.s EXCEPT !.lcs = TRUE]
          quota == s1.remoteQuota
          refreshed == [count |-> 0, resetAt |-> t + oneDay]
      IN IF t > quota.resetAt
           THEN Res(IF rup = "ok" THEN [s1 EXCEPT !.remoteQuota = refreshed]
                    ELSE s1, refreshed, FALSE, TRUE)
           ELSE Res(s1, quota, FALSE, TRUE)
  ELSE getLocalQuota(s, t, ls)

saveToLocal(s, b, t, ls) ==
  LET s1 == IF LsGetThrows(ls) \/ LsSetHistThrows(ls) THEN s
            ELSE [s EXCEPT !.localHistory = Take(<<b>> \o @, LocalCap)]
      quota == IF s1.localQuota = NoQuota
               THEN [count |-> 0, resetAt |-> t + oneDay]
               ELSE s1.localQuota
  IN IF LsGetThrows(ls) \/ LsSetThrows(ls) THEN Res(s1, FALSE, TRUE, FALSE)
     ELSE Res([s1 EXCEPT !.localQuota = [quota EXCEPT !.count = @ + 1]],
              TRUE, FALSE, FALSE)

\* The row the insert creates: the table assigns id and created_at; content
\* is the broadcast's script.  Its columns client_id, audio_base_64 and mode
\* are not kept: no session reads them back.
NewRow(s, b, t) ==
  [id |-> Len(s.remoteBroadcasts) + 1, content |-> b.script, created_at |-> t]

\* Mutant: every insert error is taken for a schema mismatch.
onBroadcastError_anyError(s, ins) == [s EXCEPT !.sed = TRUE]

\* if (broadcastError) { if (code === 'PGRST205') schemaErrorDetected = true }
onBroadcastError(s, ins) ==
  IF ins = "PGRST205" THEN [s EXCEPT !.sed = TRUE] ELSE s

\* ins: outcome of the insert; sel, rup: outcomes inside the nested getQuota;
\* ups: outcome of the upsert of the incremented quota.
saveBroadcast(s, b, t, ls, ins, sel, rup, ups) ==
  LET cid == getClientId(s, ls) IN
  IF cid.raised THEN Res(s, FALSE, TRUE, FALSE)
  ELSE IF RemoteViable(cid.s) THEN
    IF ins = "throw"
      THEN [saveToLocal(cid.s, b, t, ls) EXCEPT !.att = TRUE]
    ELSE IF ins # "ok"
      THEN [saveToLocal(onBroadcastError(cid.s, ins), b, t, ls)
              EXCEPT !.att = TRUE]
    ELSE
      LET s1 == [cid.s EXCEPT
                   !.remoteBroadcasts = <<NewRow(cid.s, b, t)>> \o @]
          q == getQuota(s1, t, ls, sel, rup)
      IN IF q.raised \/ ups = "throw"
           THEN [saveToLocal(q.s, b, t, ls) EXCEPT !.att = TRUE]
         ELSE
           LET s2 == IF ups = "ok"
                     THEN [q.s EXCEPT !.remoteQuota =
                            [count |-> q.ret.count + 1,
                             resetAt |-> q.ret.resetAt]]
                     ELSE q.s
           IN Res([s2 EXCEPT !.lcs = TRUE], TRUE, FALSE, TRUE)
  ELSE saveToLocal(cid.s, b, t, ls)

\* Mutant: the fallback answers with an empty list.
getFromLocal_empty(s, ls) ==
  IF LsGetThrows(ls) THEN Res(s, <<>>, TRUE, FALSE)
  ELSE Res(s, <<>>, FALSE, FALSE)

\* const data = localStorage.getItem(LOCAL_STORAGE_KEY); data ? parse : []
getFromLocal(s, ls) ==
  IF LsGetThrows(ls) THEN Res(s, <<>>, TRUE, FALSE)
  ELSE Res(s, s.localHistory, FALSE, FALSE)

\* row[c] where c is a column that holds audio: undefined when the row
\* object has no such property.
AudioColumn(row, c) == IF c \in DOMAIN row THEN row[c] ELSE NoAudio

\* a || b on audio payloads
OrAudio(a, b) == IF a # NoAudio THEN a ELSE b

ToUpperCase(m) ==
  CASE m = "creative" -> "CREATIVE"
    [] m = "manual" -> "MANUAL"
    [] OTHER -> m

\* row.mode ? row.mode.toUpperCase() : BroadcastMode.CREATIVE, and
\* row.mode?.toUpperCase() || BroadcastMode.CREATIVE: the two agree, since
\* only the empty string has an empty upper case.
ModeOf(row) ==
  IF "mode" \in DOMAIN row /\ row.mode # "" THEN ToUpperCase(row.mode)
  ELSE "CREATIVE"

\* .select('id, content, audio_base_64, mode, created_at')
ListColumns == {"id", "content", "audio_base_64", "mode", "created_at"}
SelectColumns(row) == [c \in ListColumns \cap DOMAIN row |-> row[c]]

\* The Broadcast getBroadcasts builds from a row.
RowToBroadcast(row) ==
  [id |-> <<"row", row.id>>, title |-> "Underground Signal",
   prompt |-> "Transmitted Data", script |-> row.content,
   audioData |-> OrAudio(AudioColumn(row, "audio_base_64"), NoAudio),
   mode |-> ModeOf(row), createdAt |-> row.created_at]

\* The rows whose created_at is one of keys, the latest first; rows with
\* the same created_at stay in storage order.
RECURSIVE OrderDesc(_, _)
OrderDesc(rows, keys) ==
  IF keys = {} THEN <<>>
  ELSE LET k == CHOOSE x \in keys : \A y \in keys : y <= x IN
       SelectSeq(rows, LAMBDA r : r.created_at = k)
         \o OrderDesc(rows, keys \ {k})

\* .order('created_at', { ascending: false })
OrderByCreatedAt(rows) ==
  OrderDesc(rows, {rows[i].created_at : i \in 1..Len(rows)})

\* Mutant: the query has no limit.
Limit_none(rows, n) == rows

\* .limit(30)
Limit(rows, n) == Take(rows, n)

\* The rows the select of getBroadcasts returns.
SelectBroadcasts(s) ==
  LET rows == Limit(OrderByCreatedAt(s.remoteBroadcasts), ListLimit) IN
  [i \in 1..Len(rows) |-> SelectColumns(rows[i])]

\* Mutant: a thrown select is not caught.
getBroadcasts_throwEscapes(s, ls, sel) ==
  IF s.supabase /\ ~s.sed THEN
    IF sel = "throw" THEN Res(s, <<>>, TRUE, TRUE)
    ELSE IF sel # "ok" THEN [getFromLocal(s, ls) EXCEPT !.att = TRUE]
    ELSE Res([s EXCEPT !.lcs = TRUE],
             [i \in 1..Len(SelectBroadcasts(s)) |->
                RowToBroadcast(SelectBroadcasts(s)[i])],
             FALSE, TRUE)
  ELSE getFromLocal(s, ls)

getBroadcasts(s, ls, sel) ==
  IF RemoteViable(s) THEN
    IF sel # "ok" THEN [getFromLocal(s, ls) EXCEPT !.att = TRUE]
    ELSE Res([s EXCEPT !.lcs = TRUE],
             [i \in 1..Len(SelectBroadcasts(s)) |->
                RowToBroadcast(SelectBroadcasts(s)[i])],
             FALSE, TRUE)
  ELSE getFromLocal(s, ls)

\* ------------------------------------------------- the environment's choices

\* What the environment may do to a run: the behaviours of localStorage,
\* the outcomes of a remote read or insert, the outcomes of an upsert, and
\* the number of broadcasts generated.
FullEnv ==
  [ls |-> LsModes, ro |-> RemoteOutcomes, uo |-> UpsertOutcomes,
   saves |-> MaxSaves]

\* Working local storage, any remote outcome, more broadcasts.
ProducerEnv ==
  [ls |-> {"ok"}, ro |-> RemoteOutcomes, uo |-> UpsertOutcomes,
   saves |-> MaxProducerSaves]

\* A remote call has an outcome only if it is issued.
Outcomes(issued, set) == IF issued THEN set ELSE {"-"}

Stale(q, t) == q # NoQuota /\ t > q.resetAt

\* getQuota issues its select when the remote is viable and the client id
\* can be read, and its upsert when the row it read is stale.
QuotaSelects(E, s, ls) ==
  Outcomes(RemoteViable(s) /\ ~getClientId(s, ls).raised, E.ro)
QuotaUpserts(E, s, t, sel) ==
  Outcomes(sel = "ok" /\ Stale(s.remoteQuota, t), E.uo)

Observe(name, r, in) ==
  /\ UNCHANGED <<playVars, feedVars, playerVars, codecVars, mapVars, raceVars, clickVars>>
  /\ op' = name
  /\ attempted' = r.att
  /\ raised' = r.raised
  /\ ret' = r.ret
  /\ inp' = in

\* --------------------------------------------------------------- the producer

InitSession ==
  /\ supabase \in BOOLEAN
  /\ schemaErrorDetected = FALSE
  /\ lastCallSuccessful = FALSE
  /\ clientId = FALSE
  /\ localHistory = <<>>
  /\ localQuota = NoQuota
  /\ remoteBroadcasts = <<>>
  /\ remoteQuota = NoQuota
  /\ now = 0
  /\ pc = "idle"
  /\ rpc = "idle"
  /\ refreshes = 0
  /\ radioState = "IDLE"
  /\ newBroadcast = NoBroadcast
  /\ nextId = 0
  /\ op = "init"
  /\ attempted = FALSE
  /\ raised = FALSE
  /\ ret = FALSE
  /\ inp = NoInput
  /\ sinceSave = NoBroadcast
  /\ listFor = NoBroadcast
  /\ saved = 0
  /\ isReady = FALSE
  /\ currentTime = 0
  /\ nextStartTime = 0
  /\ obsRadioState = "IDLE"
  /\ decoding = <<>>
  /\ sources = <<>>
  /\ delivered = 0
  /\ channel = "unset"
  /\ subViable = FALSE
  /\ feed = <<>>
  /\ emitted = 0
  /\ missed = 0
  /\ callbacks = <<>>
  /\ sourceRef = 0
  /\ appSources = <<>>
  /\ appDecoding = <<>>
  /\ plays = 0
  /\ sessPc = [i \in Sessions |-> "idle"]
  /\ sessQuota = [i \in Sessions |-> NoQuota]
  /\ sessSaves = [i \in Sessions |-> 0]
  /\ hgPc = [c \in Calls |-> "none"]
  /\ prompt = ""
  /\ uiQuota = 0

\* No audio has been generated.
NoPcm ==
  /\ pcm = <<>>
  /\ sampleRate = DefaultSampleRate
  /\ audioData = <<>>
  /\ blob = <<>>
  /\ bytes = <<>>
  /\ cop = "init"

\* No row is being mapped.
NoMapping ==
  /\ tableRow = NoRow
  /\ live = NoBroadcast
  /\ listed = NoBroadcast

\* The state after construction.
Init == InitSession /\ NoPcm /\ NoMapping

\* What a step that calls no service function leaves to be observed.
NoCallOn(name) ==
  /\ UNCHANGED <<playVars, feedVars, playerVars, codecVars, mapVars, raceVars, clickVars>>
  /\ op' = name
  /\ attempted' = FALSE
  /\ raised' = FALSE
  /\ ret' = FALSE
  /\ inp' = NoInput
  /\ listFor' = NoBroadcast

\* A step that calls no service function.
NoCall(name) ==
  /\ NoCallOn(name)
  /\ UNCHANGED <<svcVars, sinceSave, saved>>

\* Date.now() advances.
Tick ==
  /\ now < MaxNow
  /\ now' = now + 1
  /\ NoCall("tick")
  /\ UNCHANGED appVars

\* One getQuota call and what its caller sees.
CallGetQuota(r, ls, sel, rup) ==
  /\ SetSvc(r.s)
  /\ Observe("getQuota", r, [NoInput EXCEPT !.ls = ls, !.sel = sel, !.rup = rup])
  /\ listFor' = NoBroadcast
  /\ UNCHANGED <<now, sinceSave, saved>>

\* One getBroadcasts call and what its caller sees.
CallGetBroadcasts(r, ls, sel) ==
  /\ SetSvc(r.s)
  /\ Observe("getBroadcasts", r, [NoInput EXCEPT !.ls = ls, !.sel = sel])
  /\ listFor' = sinceSave
  /\ sinceSave' = NoBroadcast
  /\ UNCHANGED <<now, saved>>

\* handleGenerate, up to the quota gate: the prompt is not empty.
HG_Check(E) ==
  /\ pc = "idle"
  /\ nextId < E.saves
  /\ \E ls \in E.ls :
     \E sel \in QuotaSelects(E, Svc, ls) :
     \E rup \in QuotaUpserts(E, Svc, now, sel) :
       LET r == getQuota(Svc, now, ls, sel, rup) IN
       /\ CallGetQuota(r, ls, sel, rup)
       /\ IF r.raised THEN UNCHANGED <<pc, radioState>>
          ELSE IF r.ret.count >= QuotaLimit
            THEN pc' = "idle" /\ radioState' = "ERROR"
          ELSE pc' = "generating" /\ radioState' = "GENERATING"
  /\ UNCHANGED <<rpc, refreshes, newBroadcast, nextId>>

\* Mutant: the failure of the generator is not caught before the save.
AfterGenerate_savesAnyway(ok) == "saving"

\* Where handleGenerate goes after line 58: on to the save, or, when the
\* generator throws, to the catch at line 97 and out.
AfterGenerate(ok) == IF ok THEN "saving" ELSE "idle"

\* What generateBroadcastData gives: a complete bundle, a bundle whose
\* audioData is '' (the speech response had no inline data), or an
\* exception.
GeneratorOutcomes == {"bundle", "incomplete", "throw"}

\* generateBroadcastData returns a bundle or fails; handleGenerate builds
\* newBroadcast from whatever it returned.
HG_Generate ==
  /\ pc = "generating"
  /\ \E g \in GeneratorOutcomes :
     LET ok == g # "throw" IN
       /\ pc' = AfterGenerate(ok)
       /\ IF ok
          THEN /\ nextId' = nextId + 1
               /\ newBroadcast' = [id |-> <<"gen", nextId + 1>>,
                                   script |-> nextId + 1,
                                   audioData |-> IF g = "bundle" THEN SomeAudio
                                                 ELSE NoAudio,
                                   createdAt |-> now]
               /\ UNCHANGED radioState
          ELSE /\ radioState' = "ERROR"
               /\ UNCHANGED <<nextId, newBroadcast>>
  /\ NoCall("generate")
  /\ UNCHANGED <<now, rpc, refreshes>>

\* await db.saveBroadcast(newBroadcast)
HG_Save(E) ==
  /\ pc = "saving"
  /\ \E ls \in E.ls :
     LET issued == ~getClientId(Svc, ls).raised /\ RemoteViable(Svc) IN
     \E ins \in Outcomes(issued, E.ro) :
     \E sel \in Outcomes(ins = "ok", E.ro) :
     \E rup \in QuotaUpserts(E, Svc, now, sel) :
     \E ups \in Outcomes(ins = "ok", E.uo) :
       LET r == saveBroadcast(Svc, newBroadcast, now, ls, ins, sel, rup, ups)
       IN
       /\ SetSvc(r.s)
       /\ Observe("saveBroadcast", r,
                  [ls |-> ls, ins |-> ins, sel |-> sel, rup |-> rup,
                   ups |-> ups])
       /\ IF r.raised
          THEN /\ pc' = "idle"
               /\ radioState' = "ERROR"
               /\ UNCHANGED <<sinceSave, saved>>
          ELSE /\ pc' = "listing"
               /\ radioState' = "IDLE"
               /\ sinceSave' = newBroadcast
               /\ saved' = saved + 1
  /\ listFor' = NoBroadcast
  /\ UNCHANGED <<now, rpc, refreshes, newBroadcast, nextId>>

\* const history = await db.getBroadcasts()
HG_List(E) ==
  /\ pc = "listing"
  /\ \E ls \in E.ls :
     \E sel \in Outcomes(RemoteViable(Svc), E.ro) :
       LET r == getBroadcasts(Svc, ls, sel) IN
       /\ CallGetBroadcasts(r, ls, sel)
       /\ IF r.raised THEN pc' = "idle" /\ radioState' = "ERROR"
          ELSE pc' = "quota" /\ UNCHANGED radioState
  /\ UNCHANGED <<rpc, refreshes, newBroadcast, nextId>>

\* const updatedQuota = await db.getQuota()
HG_Quota(E) ==
  /\ pc = "quota"
  /\ \E ls \in E.ls :
     \E sel \in QuotaSelects(E, Svc, ls) :
     \E rup \in QuotaUpserts(E, Svc, now, sel) :
       LET r == getQuota(Svc, now, ls, sel, rup) IN
       /\ CallGetQuota(r, ls, sel, rup)
       /\ pc' = "idle"
       /\ radioState' = IF r.raised THEN "ERROR" ELSE radioState
  /\ UNCHANGED <<rpc, refreshes, newBroadcast, nextId>>

\* refreshAppData, on mount and every 30 s: getBroadcasts ...
RefreshList(E) ==
  /\ rpc = "idle"
  /\ refreshes < MaxRefresh
  /\ refreshes' = refreshes + 1
  /\ \E ls \in E.ls :
     \E sel \in Outcomes(RemoteViable(Svc), E.ro) :
       LET r == getBroadcasts(Svc, ls, sel) IN
       /\ CallGetBroadcasts(r, ls, sel)
       /\ rpc' = IF r.raised THEN "idle" ELSE "quota"
  /\ UNCHANGED <<pc, radioState, newBroadcast, nextId>>

\* ... then getQuota.
RefreshQuota(E) ==
  /\ rpc = "quota"
  /\ \E ls \in E.ls :
     \E sel \in QuotaSelects(E, Svc, ls) :
     \E rup \in QuotaUpserts(E, Svc, now, sel) :
       LET r == getQuota(Svc, now, ls, sel, rup) IN
       /\ CallGetQuota(r, ls, sel, rup)
       /\ rpc' = "idle"
  /\ UNCHANGED <<pc, refreshes, radioState, newBroadcast, nextId>>

\* A producer session: both handlers and the clock, any environment.
Next ==
  \/ Tick
  \/ HG_Check(FullEnv)
  \/ HG_Generate
  \/ HG_Save(FullEnv)
  \/ HG_List(FullEnv)
  \/ HG_Quota(FullEnv)
  \/ RefreshList(FullEnv)
  \/ RefreshQuota(FullEnv)

Spec == Init /\ [][Next]_vars

\* handleGenerate alone, run after run within one quota window (the clock
\* stands still), with working local storage.
NextProducer ==
  \/ HG_Check(ProducerEnv)
  \/ HG_Generate
  \/ HG_Save(ProducerEnv)
  \/ HG_List(ProducerEnv)
  \/ HG_Quota(ProducerEnv)

SpecProducer == Init /\ [][NextProducer]_vars

\* Working local storage, any outcome of a remote read or insert.
ListEnv ==
  [ls |-> {"ok"}, ro |-> RemoteOutcomes, uo |-> {"ok"},
   saves |-> MaxFeedSaves]

\* Another client inserts a row into broadcasts; the table gives it its
\* created_at.
OtherInsert ==
  /\ supabase
  /\ Len(remoteBroadcasts) < MaxRows
  /\ remoteBroadcasts' = Append(remoteBroadcasts,
       [id |-> Len(remoteBroadcasts) + 1, content |-> 0, created_at |-> now])
  /\ NoCallOn("insert")
  /\ UNCHANGED <<supabase, schemaErrorDetected, lastCallSuccessful, clientId,
                 localHistory, localQuota, remoteQuota, sinceSave, saved>>
  /\ UNCHANGED <<now, appVars>>

\* A session that only refreshes its view, beside other clients that fill
\* the table.
NextList ==
  \/ Tick
  \/ OtherInsert
  \/ RefreshList(ListEnv)
  \/ RefreshQuota(ListEnv)

SpecList == Init /\ [][NextList]_vars

\* --------------------------------------------------------------- the listener

\* The audioData of a delivered broadcast: empty; not base64 (atob throws);
\* an odd number of bytes (the Int16Array view throws); or PCM that decodes
\* to a buffer of the given duration.
AudioKinds ==
  {[kind |-> k, duration |-> 0] : k \in {"empty", "malformed", "truncated"}}
    \cup {[kind |-> "pcm", duration |-> d] : d \in 1..MaxDur}

\* Mutant: the previous item's end is ignored.
StartTime_now(clock, next) == clock

\* const startTime = Math.max(now, nextStartTimeRef.current)
StartTime(clock, next) == Max(clock, next)

\* Mutant: the end of the item is not carried to the next one.
NextStartTime_noDuration(startTime, duration) == startTime

\* nextStartTimeRef.current = startTime + buffer.duration
NextStartTime(startTime, duration) == startTime + duration

\* The button INITIALIZE OBS FEED.
initializeAudio ==
  /\ ~isReady
  /\ isReady' = TRUE
  /\ UNCHANGED <<currentTime, nextStartTime, obsRadioState, decoding,
                 sources, delivered>>
  /\ UNCHANGED <<svcVars, now, appVars, obsVars, feedVars, playerVars, codecVars, mapVars, raceVars, clickVars>>

\* The device clock runs once the context exists.
ClockTick ==
  /\ isReady
  /\ currentTime < MaxClock
  /\ currentTime' = currentTime + 1
  /\ UNCHANGED <<isReady, nextStartTime, obsRadioState, decoding, sources,
                 delivered>>
  /\ UNCHANGED <<svcVars, now, appVars, obsVars, feedVars, playerVars, codecVars, mapVars, raceVars, clickVars>>

\* queueAndPlay(broadcast) up to its await, for a broadcast whose audioData
\* is a: nothing without the audio context or without audio; else PLAYING,
\* and the decode is under way unless atob threw.
queueAndPlayOf(a) ==
  /\ delivered' = delivered + 1
  /\ IF ~isReady \/ a.kind = "empty"
       THEN UNCHANGED <<obsRadioState, decoding>>
     ELSE IF a.kind = "malformed"
       THEN obsRadioState' = "PLAYING" /\ UNCHANGED decoding
     ELSE /\ obsRadioState' = "PLAYING"
          /\ decoding' = Append(decoding,
               [kind |-> a.kind, duration |-> a.duration,
                called |-> currentTime, prev |-> Len(sources),
                seq |-> delivered + 1])
  /\ UNCHANGED <<isReady, currentTime, nextStartTime, sources>>

\* The subscription's callback calls queueAndPlay; the subscription exists
\* only when isReady and a remote client is configured.
queueAndPlay ==
  /\ isReady
  /\ supabase
  /\ delivered < MaxItems
  /\ \E a \in AudioKinds : queueAndPlayOf(a)
  /\ UNCHANGED <<svcVars, now, appVars, obsVars, feedVars, playerVars, codecVars, mapVars, raceVars, clickVars>>

RemoveAt(q, k) == SubSeq(q, 1, k - 1) \o SubSeq(q, k + 1, Len(q))

\* Mutant: the call that reached its await last resumes first.
Resumed_lastFirst(q) == Len(q)

\* Which of the calls waiting at await decodeAudioDataToBuffer(...) resumes
\* next: the promises are already resolved and their continuations are
\* microtasks, run in the order in which they were queued.
Resumed(q) == 1

\* queueAndPlay after its await: the decode failed (caught and logged), or
\* the buffer is scheduled.
queueAndPlay_resume ==
  /\ decoding # <<>>
  /\ decoding' = RemoveAt(decoding, Resumed(decoding))
  /\ LET a == decoding[Resumed(decoding)] IN
     IF a.kind = "truncated"
       THEN UNCHANGED <<nextStartTime, sources>>
       ELSE LET startTime == StartTime(currentTime, nextStartTime) IN
            /\ sources' = Append(sources,
                 [start |-> startTime, duration |-> a.duration,
                  ended |-> FALSE, called |-> a.called, prev |-> a.prev,
                  sched |-> currentTime, seq |-> a.seq])
            /\ nextStartTime' = NextStartTime(startTime, a.duration)
  /\ UNCHANGED <<isReady, currentTime, obsRadioState, delivered>>
  /\ UNCHANGED <<svcVars, now, appVars, obsVars, feedVars, playerVars, codecVars, mapVars, raceVars, clickVars>>

\* source.onended, delivered at or after the end of the source.
onended ==
  /\ \E i \in 1..Len(sources) :
       /\ ~sources[i].ended
       /\ currentTime >= sources[i].start + sources[i].duration
       /\ sources' = [sources EXCEPT ![i].ended = TRUE]
  /\ obsRadioState' = IF currentTime >= nextStartTime - Epsilon THEN "IDLE"
                      ELSE obsRadioState
  /\ UNCHANGED <<isReady, currentTime, nextStartTime, decoding, delivered>>
  /\ UNCHANGED <<svcVars, now, appVars, obsVars, feedVars, playerVars, codecVars, mapVars, raceVars, clickVars>>

NextListener ==
  \/ initializeAudio
  \/ ClockTick
  \/ queueAndPlay
  \/ queueAndPlay_resume
  \/ onended

SpecListener == Init /\ [][NextListener]_vars

\* The listener with its scheduling made fair: a continuation waiting at the
\* await runs (microtask), the device clock advances, and the ended event of
\* a source that has played to its end is delivered.  The calls of
\* queueAndPlay themselves are not fair: only finitely many need arrive.
SpecListenerFair ==
  /\ SpecListener
  /\ WF_vars(queueAndPlay_resume)
  /\ WF_vars(ClockTick)
  /\ WF_vars(onended)


\* ------------------------------------------------------- the realtime channel

\* Working local storage, any outcome of a remote read or insert.
FeedEnv ==
  [ls |-> {"ok"}, ro |-> RemoteOutcomes, uo |-> {"ok"},
   saves |-> MaxFeedSaves]

\* Mutant: a viable backend is required, as in the three store functions.
subscribeToNewBroadcasts_viableOnly(s) ==
  IF ~RemoteViable(s) THEN "null" ELSE "open"

\* if (!supabase) return null; else the channel, subscribed.
subscribeToNewBroadcasts(s) ==
  IF ~s.supabase THEN "null" ELSE "open"

\* The Broadcast the channel's handler builds from payload.new.
PayloadToBroadcast(row) ==
  [id |-> <<"row", row.id>>, title |-> "Incoming Signal",
   prompt |-> "Live Transmission", script |-> row.content,
   audioData |-> OrAudio(OrAudio(AudioColumn(row, "audio_base_64"),
                                 AudioColumn(row, "audio_base64")), NoAudio),
   mode |-> ModeOf(row), createdAt |-> row.created_at]

\* Mutant: a broadcast without audio is not passed on.
Notify_audioOnly(cbs, b) ==
  IF b.audioData.kind = "empty" THEN cbs ELSE Append(cbs, b)

\* onNewBroadcast(broadcast)
Notify(cbs, b) == Append(cbs, b)

\* The effect of ObserverView, run once isReady: subscribe.
subscribe ==
  /\ isReady
  /\ channel = "unset"
  /\ channel' = subscribeToNewBroadcasts(Svc)
  /\ subViable' = RemoteViable(Svc)
  /\ UNCHANGED <<feed, emitted, missed, callbacks>>
  /\ UNCHANGED <<svcVars, now, appVars, obsVars, playVars, playerVars, codecVars, mapVars, raceVars, clickVars>>

\* The effect's cleanup: channel?.unsubscribe().  Events still in flight
\* are dropped with the channel.
unsubscribe ==
  /\ channel \in {"null", "open"}
  /\ channel' = "closed"
  /\ feed' = <<>>
  /\ UNCHANGED <<subViable, emitted, missed, callbacks>>
  /\ UNCHANGED <<svcVars, now, appVars, obsVars, playVars, playerVars, codecVars, mapVars, raceVars, clickVars>>

\* Mutant: the handler stays bound after unsubscribe.
Delivers_afterUnsubscribe(ch) == ch \in {"open", "closed"}

\* The channel hands INSERT events to its handler from subscribe() until
\* unsubscribe().
Delivers(ch) == ch = "open"

\* Some client inserts a row into broadcasts.  The backend's change feed
\* emits the INSERT event to the open channel; a row inserted after the
\* channel was unsubscribed reaches no handler.
RemoteInsert ==
  /\ channel \in {"open", "closed"}
  /\ IF channel = "open"
       THEN /\ emitted < MaxEvents
            /\ emitted' = emitted + 1
            /\ UNCHANGED missed
       ELSE /\ emitted + missed < MaxEvents
            /\ missed' = missed + 1
            /\ UNCHANGED emitted
  /\ \E a \in AudioKinds :
       feed' = IF Delivers(channel)
                 THEN Append(feed, [id |-> emitted + missed + 1,
                                    content |-> emitted + missed + 1,
                                    audio_base_64 |-> a, created_at |-> now])
               ELSE feed
  /\ UNCHANGED <<channel, subViable, callbacks>>
  /\ UNCHANGED <<svcVars, now, appVars, obsVars, playVars, playerVars, codecVars, mapVars, raceVars, clickVars>>

\* The channel's handler for one event: map the row, invoke the callback,
\* which calls queueAndPlay.
onInsert ==
  /\ Delivers(channel)
  /\ feed # <<>>
  /\ feed' = Tail(feed)
  /\ LET broadcast == PayloadToBroadcast(Head(feed)) IN
     /\ callbacks' = Notify(callbacks, broadcast)
     /\ queueAndPlayOf(broadcast.audioData)
  /\ UNCHANGED <<channel, subViable, emitted, missed>>
  /\ UNCHANGED <<svcVars, now, appVars, obsVars, playerVars, codecVars, mapVars, raceVars, clickVars>>

\* A session that produces and listens: handleGenerate, the subscription
\* and its events.
NextFeed ==
  \/ HG_Check(FeedEnv)
  \/ HG_Generate
  \/ HG_Save(FeedEnv)
  \/ HG_List(FeedEnv)
  \/ HG_Quota(FeedEnv)
  \/ initializeAudio
  \/ subscribe
  \/ unsubscribe
  \/ RemoteInsert
  \/ onInsert
  \/ queueAndPlay_resume

SpecFeed == Init /\ [][NextFeed]_vars

\* ------------------------------------------------- the single-shot player

\* sourceRef.current.stop(), if there is a current source: a source that
\* has already ended is not affected.
StopCurrent(srcs, ref) ==
  IF ref # 0 /\ srcs[ref] = "playing" THEN [srcs EXCEPT ![ref] = "stopped"]
  ELSE srcs

\* playBroadcast(broadcast) up to its await: nothing without audio; else
\* the current source is stopped, the state is PLAYING, and the decode is
\* under way unless atob threw (caught: ERROR).
playBroadcast ==
  /\ plays < MaxPlays
  /\ plays' = plays + 1
  /\ \E a \in AudioKinds :
       IF a.kind = "empty"
         THEN UNCHANGED <<appSources, appDecoding, radioState>>
       ELSE /\ appSources' = StopCurrent(appSources, sourceRef)
            /\ IF a.kind = "malformed"
                 THEN radioState' = "ERROR" /\ UNCHANGED appDecoding
                 ELSE /\ radioState' = "PLAYING"
                      /\ appDecoding' = Append(appDecoding, a)
  /\ UNCHANGED sourceRef
  /\ UNCHANGED <<svcVars, now, pc, rpc, refreshes, newBroadcast, nextId,
                 obsVars, playVars, feedVars, codecVars, mapVars, raceVars, clickVars>>

\* playBroadcast after its await: the decode failed (caught: ERROR), or the
\* new source is started at once and becomes the current one.
playBroadcast_resume ==
  /\ appDecoding # <<>>
  /\ appDecoding' = Tail(appDecoding)
  /\ IF Head(appDecoding).kind = "truncated"
       THEN radioState' = "ERROR" /\ UNCHANGED <<appSources, sourceRef>>
       ELSE /\ appSources' = Append(appSources, "playing")
            /\ sourceRef' = Len(appSources) + 1
            /\ UNCHANGED radioState
  /\ UNCHANGED plays
  /\ UNCHANGED <<svcVars, now, pc, rpc, refreshes, newBroadcast, nextId,
                 obsVars, playVars, feedVars, codecVars, mapVars, raceVars, clickVars>>

\* source.onended, after the source has played to its end or was stopped.
onPlayEnded ==
  /\ \E i \in 1..Len(appSources) :
       /\ appSources[i] \in {"playing", "stopped"}
       /\ appSources' = [appSources EXCEPT ![i] = "done"]
  /\ radioState' = "IDLE"
  /\ UNCHANGED <<sourceRef, appDecoding, plays>>
  /\ UNCHANGED <<svcVars, now, pc, rpc, refreshes, newBroadcast, nextId,
                 obsVars, playVars, feedVars, codecVars, mapVars, raceVars, clickVars>>

NextPlayer ==
  \/ playBroadcast
  \/ playBroadcast_resume
  \/ onPlayEnded

SpecPlayer == Init /\ [][NextPlayer]_vars

\* ------------------------------------------------------------ codec sessions

\* A broadcast whose audio the content generator produced: any payload, in
\* base64, and any rate for the download.
InitCodec ==
  /\ InitSession
  /\ pcm \in PcmPayloads
  /\ sampleRate \in SampleRates
  /\ audioData = Base64Encode(pcm)
  /\ blob = <<>>
  /\ bytes = <<>>
  /\ cop = "init"
  /\ NoMapping

\* downloadActiveSignal: createWavBlob(activeBroadcast.audioData)
downloadActiveSignal ==
  /\ ~createWavBlob(audioData, sampleRate).raised
  /\ blob' = createWavBlob(audioData, sampleRate).blob
  /\ cop' = "createWavBlob"
  /\ UNCHANGED <<pcm, sampleRate, audioData, bytes>>
  /\ UNCHANGED <<svcVars, now, appVars, obsVars, playVars, feedVars,
                 playerVars, mapVars, raceVars, clickVars>>

\* The first step of a playback: decodeBase64(broadcast.audioData)
decodeAudio ==
  /\ ~decodeBase64(audioData).raised
  /\ bytes' = decodeBase64(audioData).bytes
  /\ cop' = "decodeBase64"
  /\ UNCHANGED <<pcm, sampleRate, audioData, blob>>
  /\ UNCHANGED <<svcVars, now, appVars, obsVars, playVars, feedVars,
                 playerVars, mapVars, raceVars, clickVars>>

NextCodec ==
  \/ downloadActiveSignal
  \/ decodeAudio

SpecCodec == InitCodec /\ [][NextCodec]_vars

\* ------------------------------------------------------ row mapping sessions

\* What a column of a row may hold: audio in either, both or neither of the
\* two column names; a mode in lower case, or none.
RowAudio == {NoAudio, SomeAudio}
RowModes == {"", "creative", "manual"}
FullRows ==
  [id : 1..2, content : 0..1, audio_base_64 : RowAudio,
   audio_base64 : RowAudio, mode : RowModes, created_at : 0..1]

\* A row of table broadcasts, about to be delivered by the change feed and
\* to be read by getBroadcasts.
InitMap ==
  /\ InitSession
  /\ NoPcm
  /\ tableRow \in FullRows
  /\ live = NoBroadcast
  /\ listed = NoBroadcast

\* The channel's handler maps payload.new.
mapPayload ==
  /\ live' = PayloadToBroadcast(tableRow)
  /\ UNCHANGED <<tableRow, listed>>
  /\ UNCHANGED <<svcVars, now, appVars, obsVars, playVars, feedVars,
                 playerVars, codecVars, raceVars, clickVars>>

\* getBroadcasts maps the row as its select returns it.
mapListRow ==
  /\ listed' = RowToBroadcast(SelectColumns(tableRow))
  /\ UNCHANGED <<tableRow, live>>
  /\ UNCHANGED <<svcVars, now, appVars, obsVars, playVars, feedVars,
                 playerVars, codecVars, raceVars, clickVars>>

NextMap ==
  \/ mapPayload
  \/ mapListRow

SpecMap == InitMap /\ [][NextMap]_vars

\* ------------------------------------------------- two concurrent sessions

\* Mutant: the upsert increments the row as it is when the upsert arrives.
UpsertedQuota_atomic(quota, current) ==
  IF current = NoQuota THEN [count |-> quota.count + 1,
                             resetAt |-> quota.resetAt]
  ELSE [count |-> current.count + 1, resetAt |-> current.resetAt]

\* .upsert({ id: clientId, count: quota.count + 1, resetAt: quota.resetAt }):
\* the row is overwritten with what the session read, plus one.
UpsertedQuota(quota, current) ==
  [count |-> quota.count + 1, resetAt |-> quota.resetAt]

\* The broadcast a session saves.
SessionBroadcast(i) ==
  [id |-> <<"gen", i>>, script |-> i, audioData |-> SomeAudio,
   createdAt |-> now]

RaceStep(name) ==
  /\ op' = name
  /\ UNCHANGED <<attempted, raised, ret, inp, sinceSave, listFor, saved>>
  /\ UNCHANGED <<now, appVars, playVars, feedVars, playerVars, codecVars,
                 mapVars, clickVars>>

\* saveBroadcast of session i up to its second await: the insert succeeds,
\* or it fails and the broadcast goes to the local fallback; without a
\* remote the broadcast goes there at once.
S_insert(i) ==
  /\ sessPc[i] = "idle"
  /\ sessSaves[i] < MaxRaceSaves
  /\ sessSaves' = [sessSaves EXCEPT ![i] = @ + 1]
  /\ LET cid == getClientId(Svc, "ok")
         b == SessionBroadcast(i)
     IN IF RemoteViable(cid.s)
          THEN \E ins \in {"ok", "error"} :
                 IF ins = "ok"
                   THEN /\ SetSvc([cid.s EXCEPT !.remoteBroadcasts =
                                     <<NewRow(cid.s, b, now)>> \o @])
                        /\ sessPc' = [sessPc EXCEPT ![i] = "read"]
                   ELSE /\ SetSvc(saveToLocal(cid.s, b, now, "ok").s)
                        /\ UNCHANGED sessPc
          ELSE /\ SetSvc(saveToLocal(cid.s, b, now, "ok").s)
               /\ UNCHANGED sessPc
  /\ UNCHANGED sessQuota
  /\ RaceStep("insert")

\* const quota = await getQuota(), the select succeeding.
S_getQuota(i) ==
  /\ sessPc[i] = "read"
  /\ sessPc' = [sessPc EXCEPT ![i] = "write"]
  /\ LET q == getQuota(Svc, now, "ok", "ok", "ok") IN
     /\ SetSvc(q.s)
     /\ sessQuota' = [sessQuota EXCEPT ![i] = q.ret]
  /\ UNCHANGED sessSaves
  /\ RaceStep("getQuota")

\* await supabase.from('quotas').upsert(...), succeeding; the save is done.
S_upsert(i) ==
  /\ sessPc[i] = "write"
  /\ sessPc' = [sessPc EXCEPT ![i] = "idle"]
  /\ SetSvc([Svc EXCEPT !.remoteQuota = UpsertedQuota(sessQuota[i], @),
                        !.lcs = TRUE])
  /\ UNCHANGED <<sessQuota, sessSaves>>
  /\ RaceStep("upsert")

NextRace ==
  \/ \E i \in Sessions : S_insert(i)
  \/ \E i \in Sessions : S_getQuota(i)
  \/ \E i \in Sessions : S_upsert(i)

SpecRace == Init /\ [][NextRace]_vars

\* ---------------------------------------------------------------------
\* The transmit button of one producer session: handleGenerate calls
\* started by clicks, each suspended at its awaits.
\* ---------------------------------------------------------------------

\* The counts the awaited db.getQuota() can answer with.
QuotaCounts == {0, QuotaLimit}

\* isQuotaExhausted
isQuotaExhausted == uiQuota >= QuotaLimit

\* The button is enabled: the negation of its disabled attribute.
TransmitEnabled ==
  ~(radioState = "GENERATING" \/ prompt = "" \/ isQuotaExhausted)

ClickStep ==
  UNCHANGED <<svcVars, now, pc, rpc, refreshes, newBroadcast, nextId,
              obsVars, playVars, feedVars, playerVars, codecVars, mapVars,
              raceVars>>

\* The textarea's onChange; the textarea is disabled when the quota state is
\* exhausted.
setPrompt ==
  /\ ~isQuotaExhausted
  /\ prompt = ""
  /\ prompt' = "text"
  /\ UNCHANGED <<hgPc, uiQuota, radioState>>
  /\ ClickStep

\* A click on the enabled button: handleGenerate runs to await db.getQuota().
handleGenerate_click ==
  /\ TransmitEnabled
  /\ \E c \in Calls :
       /\ hgPc[c] = "none"
       /\ \A d \in Calls : d < c => hgPc[d] # "none"
       /\ hgPc' = [hgPc EXCEPT ![c] = "quota"]
  /\ UNCHANGED <<prompt, uiQuota, radioState>>
  /\ ClickStep

\* handleGenerate after the quota answer: ERROR and return when the count
\* is at the limit, else GENERATING and generateBroadcastData is called.
handleGenerate_gate(c) ==
  /\ hgPc[c] = "quota"
  /\ \E n \in QuotaCounts :
       IF n >= QuotaLimit
         THEN /\ radioState' = "ERROR"
              /\ hgPc' = [hgPc EXCEPT ![c] = "done"]
         ELSE /\ radioState' = "GENERATING"
              /\ hgPc' = [hgPc EXCEPT ![c] = "generate"]
  /\ UNCHANGED <<prompt, uiQuota>>
  /\ ClickStep

\* generateBroadcastData settles: saveBroadcast is called, or the catch
\* sets ERROR.
handleGenerate_generated(c) ==
  /\ hgPc[c] = "generate"
  /\ \E ok \in BOOLEAN :
       IF ok
         THEN /\ hgPc' = [hgPc EXCEPT ![c] = "save"]
              /\ UNCHANGED radioState
         ELSE /\ hgPc' = [hgPc EXCEPT ![c] = "done"]
              /\ radioState' = "ERROR"
  /\ UNCHANGED <<prompt, uiQuota>>
  /\ ClickStep

\* saveBroadcast settles: IDLE and the refresh begins, or the catch sets
\* ERROR.
handleGenerate_saved(c) ==
  /\ hgPc[c] = "save"
  /\ \E ok \in BOOLEAN :
       IF ok
         THEN /\ hgPc' = [hgPc EXCEPT ![c] = "refresh"]
              /\ radioState' = "IDLE"
         ELSE /\ hgPc' = [hgPc EXCEPT ![c] = "done"]
              /\ radioState' = "ERROR"
  /\ UNCHANGED <<prompt, uiQuota>>
  /\ ClickStep

\* getBroadcasts and getQuota settle: setQuota, setPrompt(''); or the catch
\* sets ERROR.
handleGenerate_refreshed(c) ==
  /\ hgPc[c] = "refresh"
  /\ hgPc' = [hgPc EXCEPT ![c] = "done"]
  /\ \E ok \in BOOLEAN :
       IF ok
         THEN /\ \E n \in QuotaCounts : uiQuota' = n
              /\ prompt' = ""
              /\ UNCHANGED radioState
         ELSE /\ radioState' = "ERROR"
              /\ UNCHANGED <<prompt, uiQuota>>
  /\ ClickStep

NextClicks ==
  \/ setPrompt
  \/ handleGenerate_click
  \/ \E c \in Calls : handleGenerate_gate(c)
  \/ \E c \in Calls : handleGenerate_generated(c)
  \/ \E c \in Calls : handleGenerate_saved(c)
  \/ \E c \in Calls : handleGenerate_refreshed(c)

SpecClicks == Init /\ [][NextClicks]_vars

\* ------------------------------------------------------------------ claims

ServiceCalls == {"saveBroadcast", "getBroadcasts", "getQuota"}
Count(q) == IF q = NoQuota THEN 0 ELSE q.count
Refreshed(t) == [count |-> 0, resetAt |-> t + oneDay]

\* C1: once a saveBroadcast insert has returned the schema-mismatch code,
\* getCloudStatus is 'schema_error', and it stays 'schema_error' through
\* every later step, whatever is called and whatever the remote answers.
C1_SchemaErrorSticky ==
  [][/\ (op' = "saveBroadcast" /\ inp'.ins = "PGRST205")
          => getCloudStatus' = "schema_error"
     /\ getCloudStatus = "schema_error" => getCloudStatus' = "schema_error"
    ]_vars

\* A remote call had succeeded, then the mismatch was detected, and a
\* later call has run.
C1_Witness ==
  /\ getCloudStatus = "schema_error"
  /\ lastCallSuccessful
  /\ op = "getQuota"

\* C2: once the schema flag is set, no call of saveBroadcast, getBroadcasts
\* or getQuota issues a remote call or changes a remote table; it is served
\* by the local fallback (the list is the local history, the quota is the
\* local quota, and with working local storage the save lands in the local
\* history).
C2_NoRemoteAfterSchemaError ==
  [][(schemaErrorDetected /\ op' \in ServiceCalls) =>
       /\ ~attempted'
       /\ remoteBroadcasts' = remoteBroadcasts
       /\ remoteQuota' = remoteQuota
       /\ (op' = "getBroadcasts" /\ ~raised') => ret' = localHistory
       /\ op' = "getQuota" => ret' = getLocalQuota(Svc, now, inp'.ls).ret
       /\ (op' = "saveBroadcast" /\ inp'.ls = "ok") =>
             /\ ~raised'
             /\ localHistory' # <<>>
             /\ Head(localHistory') = newBroadcast
    ]_vars

\* A second broadcast was saved after the mismatch, locally.
C2_Witness ==
  /\ schemaErrorDetected
  /\ op = "saveBroadcast"
  /\ ~attempted
  /\ saved >= 2
  /\ remoteBroadcasts # <<>>

\* C3: the getBroadcasts call that follows a completed saveBroadcast(b)
\* returns a list whose first element is b (recognised by its script, the
\* field both stores keep).  Stated for the lists whose own select did not
\* fail.
C3_SavedIsHeadOfNextList ==
  (op = "getBroadcasts" /\ listFor # NoBroadcast /\ ~raised
     /\ inp.sel \in {"ok", "-"}) =>
     (ret # <<>> /\ Head(ret).script = listFor.script)

\* C4: within one window, once QuotaLimit broadcasts have been saved no
\* handleGenerate attempt passes the quota gate (none reaches the call of
\* the content generator).  Stated for the attempts whose own quota read
\* did not fail.
C4_GateClosesAfterLimit ==
  (pc = "generating" /\ op = "getQuota" /\ inp.sel \in {"ok", "-"}) =>
     saved < QuotaLimit

\* C5: with working local storage, saveBroadcast and getBroadcasts return
\* without raising, whatever each remote call does.
C5_RemoteFailuresNeverRaise ==
  (op \in {"saveBroadcast", "getBroadcasts"} /\ inp.ls = "ok") => ~raised

\* The insert succeeded and the upsert of the quota threw.
C5_Witness ==
  /\ op = "saveBroadcast"
  /\ inp.ls = "ok"
  /\ inp.ins = "ok"
  /\ inp.ups = "throw"
  /\ ~raised

\* C6: saveBroadcast returns without raising also when localStorage raises
\* (stated for a configured backend).
C6_SaveNeverRaises ==
  (op = "saveBroadcast" /\ supabase) => ~raised

\* C7: a quota count goes up only in a saveBroadcast step that commits the
\* broadcast to the same store: a new remote row for the remote count, the
\* new head of the local history for the local count.
C7_IncrementHasRecord ==
  [][/\ Count(remoteQuota') > Count(remoteQuota) =>
          /\ op' = "saveBroadcast"
          /\ Len(remoteBroadcasts') = Len(remoteBroadcasts) + 1
          /\ Head(remoteBroadcasts').content = newBroadcast.script
     /\ Count(localQuota') > Count(localQuota) =>
          /\ op' = "saveBroadcast"
          /\ localHistory' # <<>>
          /\ Head(localHistory') = newBroadcast
    ]_vars

\* The record a getQuota step reads: the remote row when the select
\* succeeds, the local record when the remote is not viable or the select
\* throws.
ReadsRemoteQuota == RemoteViable(Svc) /\ inp'.sel = "ok" /\ remoteQuota # NoQuota
ReadsLocalQuota == inp'.sel \in {"-", "throw"} /\ localQuota # NoQuota

\* C8 as stated: a getQuota call that reads a record whose resetAt lies
\* before the call time returns count 0 and resetAt = call time + 24 h, and
\* the record it read then holds that refreshed state.
C8_RolloverPersisted ==
  [][(op' = "getQuota" /\ ~raised') =>
       /\ (ReadsRemoteQuota /\ Stale(remoteQuota, now)) =>
             (ret' = Refreshed(now) /\ remoteQuota' = Refreshed(now))
       /\ (ReadsLocalQuota /\ Stale(localQuota, now)) =>
             (ret' = Refreshed(now) /\ localQuota' = Refreshed(now))
    ]_vars

\* C8 amended: the return value is as stated; the local record is
\* rewritten, the remote row only if the fire-and-forget upsert succeeds.
C8_RolloverReturned ==
  [][(op' = "getQuota" /\ ~raised') =>
       /\ (ReadsRemoteQuota /\ Stale(remoteQuota, now)) =>
             /\ ret' = Refreshed(now)
             /\ remoteQuota' = IF inp'.rup = "ok" THEN Refreshed(now)
                               ELSE remoteQuota
       /\ (ReadsLocalQuota /\ Stale(localQuota, now)) =>
             (ret' = Refreshed(now) /\ localQuota' = Refreshed(now))
    ]_vars

\* A stale local record with a count was read and refreshed.
C8_Witness ==
  /\ op = "getQuota"
  /\ inp.sel \in {"-", "throw"}
  /\ ~raised
  /\ now > oneDay
  /\ saved = 1
  /\ ret = Refreshed(now)
  /\ localQuota = Refreshed(now)

\* C9: a saveBroadcast whose insert fails without the schema-mismatch code
\* leaves the schema flag clear and the status other than 'schema_error',
\* lands the broadcast in the local history (with working local storage),
\* and leaves the remote viable; and every service call made while the
\* remote is viable (and the client id can be had from localStorage) issues
\* a remote call.
C9_TransientFailureNotSticky ==
  [][/\ (op' = "saveBroadcast" /\ inp'.ins \in {"error", "throw"}) =>
          /\ ~schemaErrorDetected'
          /\ getCloudStatus' # "schema_error"
          /\ RemoteViable(Svc)'
          /\ remoteBroadcasts' = remoteBroadcasts
          /\ inp'.ls = "ok" =>
                (~raised' /\ Head(localHistory') = newBroadcast)
     /\ (op' \in ServiceCalls /\ RemoteViable(Svc)
           /\ (op' = "getBroadcasts" \/ ~getClientId(Svc, inp'.ls).raised))
          => attempted'
    ]_vars

\* A broadcast went to the fallback after a transient failure and a later
\* one went to the remote.
C9_Witness ==
  /\ ~schemaErrorDetected
  /\ op = "saveBroadcast"
  /\ inp.ins = "ok"
  /\ attempted
  /\ localHistory # <<>>
  /\ Head(localHistory).script < newBroadcast.script
  /\ Head(remoteBroadcasts).content = newBroadcast.script

End(src) == src.start + src.duration

\* C10: each item is started at max(device clock, nextStartTime) and
\* nextStartTime becomes that start plus the buffer's duration; so
\* nextStartTime never decreases, and the intervals of any two scheduled
\* items do not overlap.
C10_GaplessSchedule ==
  [][/\ Len(sources') > Len(sources) =>
          LET src == sources'[Len(sources')] IN
          /\ src.start = Max(currentTime, nextStartTime)
          /\ nextStartTime' = src.start + src.duration
     /\ nextStartTime' >= nextStartTime
     /\ \A i, j \in 1..Len(sources') :
          i < j => End(sources'[i]) <= sources'[j].start
    ]_vars

\* Two items are scheduled, the second while the first was still due to
\* play, and a third after a pause.
C10_Witness ==
  /\ Len(sources) = 3
  /\ sources[2].start = End(sources[1])
  /\ sources[2].start > sources[1].start + 1
  /\ sources[3].start > End(sources[2])

\* The item before source j was playing when queueAndPlay was called for j.
EnqueuedWhilePlaying(j) ==
  /\ sources[j].prev = j - 1
  /\ sources[j - 1].start <= sources[j].called
  /\ sources[j].called < End(sources[j - 1])

\* C11 as stated: an item enqueued while the one before it is playing is
\* started no earlier than that one's end s1 + d1 and no later than
\* s1 + d1 + epsilon.
C11_StartsAtEndOfPlaying ==
  \A j \in 2..Len(sources) :
    EnqueuedWhilePlaying(j) =>
      /\ End(sources[j - 1]) <= sources[j].start
      /\ sources[j].start <= End(sources[j - 1]) + Epsilon

\* C11 amended: it is started exactly at s1 + d1 if the item before it is
\* still playing when the decode completes and start() is called, and at
\* the device time of that moment otherwise.
C11_StartsAtEndIfStillPlaying ==
  \A j \in 2..Len(sources) :
    EnqueuedWhilePlaying(j) =>
      sources[j].start = IF sources[j].sched < End(sources[j - 1])
                         THEN End(sources[j - 1])
                         ELSE sources[j].sched

\* The second item was enqueued in the middle of the first and started at
\* the first one's end.
C11_Witness ==
  /\ Len(sources) >= 2
  /\ EnqueuedWhilePlaying(2)
  /\ sources[2].called > sources[1].start
  /\ sources[2].sched < End(sources[1])
  /\ sources[2].start = End(sources[1])

\* C12: while the channel is open, each INSERT event that reaches it makes
\* exactly one callback invocation, with the Broadcast mapped from the
\* event's row; and the callback is invoked in no other step.
C12_OneCallbackPerInsert ==
  [][/\ (channel = "open" /\ feed # <<>> /\ feed' = Tail(feed)
          /\ channel' = "open") =>
          callbacks' = Append(callbacks, PayloadToBroadcast(Head(feed)))
     /\ callbacks' # callbacks =>
          (channel = "open" /\ feed # <<>> /\ feed' = Tail(feed))
     /\ Len(callbacks') + Len(feed') = emitted' \/ channel' = "closed"
    ]_vars

\* Two events were handled, one of a row without audio, and nothing is in
\* flight.
C12_Witness ==
  /\ channel = "open"
  /\ emitted = 2
  /\ feed = <<>>
  /\ Len(callbacks) = 2
  /\ callbacks[1].id # callbacks[2].id
  /\ \E i \in 1..2 : callbacks[i].audioData.kind = "empty"

\* C13: when the effect subscribed without a viable remote (no client, or
\* the schema flag set), it holds no channel and the callback is never
\* invoked.
C13_NoChannelWithoutViableBackend ==
  (channel # "unset" /\ ~subViable) =>
     (channel \in {"null", "closed"} /\ emitted = 0 /\ callbacks = <<>>)

\* C14: the step in which generateBroadcastData fails ends handleGenerate
\* with radioState ERROR and changes nothing in the remote tables, the
\* local history or either quota record; saveBroadcast is only ever called
\* for a bundle the generator returned.
C14_FailedGenerationWritesNothing ==
  [][/\ (op' = "generate" /\ nextId' = nextId) =>
          /\ pc' = "idle"
          /\ radioState' = "ERROR"
          /\ saved' = saved
          /\ UNCHANGED svcVars
     /\ op' = "saveBroadcast" =>
          (pc = "saving" /\ newBroadcast.script = nextId)
    ]_vars

\* A generation failed after an earlier broadcast had been saved.
C14_Witness ==
  /\ op = "generate"
  /\ pc = "idle"
  /\ radioState = "ERROR"
  /\ saved = 1
  /\ nextId = 1
  /\ Len(remoteBroadcasts) = 1
  /\ Count(remoteQuota) = 1

C16_ListBoundedNewestFirst ==
  (op = "getBroadcasts" /\ ~raised) =>
     /\ Len(ret) <= ListLimit
     /\ \A i \in 1..(Len(ret) - 1) : ret[i].createdAt >= ret[i + 1].createdAt

\* A list cut at the limit, of rows created at different times, from a table
\* whose storage order is not the order of creation.
C16_Witness ==
  /\ op = "getBroadcasts"
  /\ attempted
  /\ inp.sel = "ok"
  /\ Len(remoteBroadcasts) > ListLimit
  /\ Len(ret) = ListLimit
  /\ ret[1].createdAt > ret[ListLimit].createdAt
  /\ remoteBroadcasts[1].created_at < remoteBroadcasts[2].created_at

\* The little-endian 32-bit number at a byte offset of a blob.
ReadUInt32LE(b, offset) ==
  b[offset + 1] + b[offset + 2] * 256 + b[offset + 3] * 65536
    + b[offset + 4] * 16777216

\* C17: the blob createWavBlob makes of a payload of L bytes at rate r has
\* 44 + L bytes, 36 + L at offset 4, r at offset 24 and L at offset 40, all
\* little-endian, and the payload's bytes from offset 44 on.
C17_WavHeaderFields ==
  cop = "createWavBlob" =>
     /\ Len(blob) = 44 + Len(pcm)
     /\ ReadUInt32LE(blob, 4) = 36 + Len(pcm)
     /\ ReadUInt32LE(blob, 24) = sampleRate
     /\ ReadUInt32LE(blob, 40) = Len(pcm)
     /\ SubSeq(blob, 45, Len(blob)) = pcm

\* A payload of three bytes, with a byte above 127, at a rate that fills
\* more than one byte of its field.
C17_Witness ==
  /\ cop = "createWavBlob"
  /\ Len(pcm) = 3
  /\ pcm[1] = 255
  /\ sampleRate = 44100
  /\ blob[25] = 68
  /\ blob[26] = 172

\* C18: decodeBase64 of the base64 text of a payload returns the payload's
\* bytes.
C18_Base64RoundTrip ==
  cop = "decodeBase64" => bytes = pcm

\* A payload that needs padding, with bytes above 127.
C18_Witness ==
  /\ cop = "decodeBase64"
  /\ Len(pcm) = 2
  /\ pcm = <<255, 128>>
  /\ audioData[4] = Pad
  /\ bytes = pcm

\* The window of a quota record is open at time t.
InWindow(q, t) == q # NoQuota /\ t <= q.resetAt

\* C19: while the window of a persisted quota record (the remote row, the
\* local record) is open, no step lowers its count or changes its resetAt.
C19_CountMonotoneInWindow ==
  [][/\ InWindow(remoteQuota, now) =>
          /\ remoteQuota' # NoQuota
          /\ remoteQuota'.count >= remoteQuota.count
          /\ remoteQuota'.resetAt = remoteQuota.resetAt
     /\ InWindow(localQuota, now) =>
          /\ localQuota' # NoQuota
          /\ localQuota'.count >= localQuota.count
          /\ localQuota'.resetAt = localQuota.resetAt
    ]_vars

\* C20: a saveBroadcast whose insert succeeded and whose quota read or
\* quota upsert then failed leaves the new row in the remote table, does
\* not write the broadcast to the local history, and returns normally.
C20_QuotaFailureKeepsSave ==
  [][(/\ op' = "saveBroadcast"
      /\ inp'.ins = "ok"
      /\ (inp'.sel \in {"PGRST205", "error", "throw"}
            \/ inp'.ups \in {"error", "throw"})) =>
       /\ Len(remoteBroadcasts') = Len(remoteBroadcasts) + 1
       /\ Head(remoteBroadcasts').content = newBroadcast.script
       /\ localHistory' = localHistory
       /\ ~raised'
    ]_vars

\* The last remote call a service function awaited in a step succeeded: the
\* select of getBroadcasts; the select of getQuota, which must find the
\* row; the insert and then the quota upsert of saveBroadcast.
LastAwaitedOk(o, i, rowExists) ==
  CASE o = "getBroadcasts" -> i.sel = "ok"
    [] o = "getQuota" -> i.sel = "ok" /\ rowExists
    [] o = "saveBroadcast" -> i.ins = "ok" /\ i.ups = "ok"
    [] OTHER -> FALSE

\* C21: after a step that made remote calls, getCloudStatus is 'connected'
\* exactly when no schema mismatch is detected and the last of those calls
\* succeeded: connected after a success, not connected after a failure.
C21_ConnectedIffLastCallSucceeded ==
  [][(op' \in ServiceCalls /\ attempted') =>
       ((getCloudStatus' = "connected") <=>
          (~schemaErrorDetected'
             /\ LastAwaitedOk(op', inp', remoteQuota # NoQuota)))
    ]_vars

\* C22: a step in which a remote select (of getBroadcasts, or of getQuota,
\* called by the handler or inside saveBroadcast) is rejected with the
\* schema-mismatch code leaves the schema flag set, so that the remote is
\* no longer viable.
C22_ReadMismatchDemotes ==
  [][inp'.sel = "PGRST205" =>
       (schemaErrorDetected' /\ ~RemoteViable(Svc)')]_vars

\* Another source is still playing or still to start at the device time t.
LaterItem(i, t) ==
  \E j \in 1..Len(sources) : j # i /\ End(sources[j]) > t

\* C23: when the completion callback of a source fires while another
\* scheduled source is still playing or still to start, the scheduler state
\* stays as it is; it becomes IDLE only when there is no such source.
C23_IdleOnlyWhenNothingQueued ==
  [][\A i \in 1..Len(sources) :
       (~sources[i].ended /\ Len(sources') = Len(sources)
          /\ sources'[i].ended /\ LaterItem(i, currentTime))
         => obsRadioState' = obsRadioState
    ]_vars

\* The step in which the decode of a queueAndPlay call fails after its
\* await: the call leaves, and no source is started.
DecodeFails == decoding # <<>> /\ decoding' = Tail(decoding)
                 /\ Len(sources') = Len(sources)

\* C24: the step in which the decode fails leaves the scheduler state at an
\* error indicator, not at PLAYING, and nextStartTime as it was.
C24_DecodeFailureShowsError ==
  [][DecodeFails =>
       (obsRadioState' = "ERROR" /\ nextStartTime' = nextStartTime)]_vars

\* C25: a saveBroadcast that goes to the local fallback while localStorage
\* is full for the history with its audio payload (and only for it) leaves
\* the broadcast's metadata at the head of the local history.
C25_StrippedRecordSurvives ==
  [][(op' = "saveBroadcast" /\ inp'.ls = "histFull" /\ inp'.ins # "ok") =>
       /\ localHistory' # <<>>
       /\ Head(localHistory').script = newBroadcast.script
    ]_vars

\* C26: the local history never holds more than LocalCap records, and a
\* saveBroadcast that is served by the local fallback and returns leaves
\* the saved broadcast at its head, before the records that were there,
\* the oldest cut off.
C26_LocalHistoryCappedNewestFirst ==
  [][/\ Len(localHistory') <= LocalCap
     /\ (op' = "saveBroadcast" /\ ~raised' /\ inp'.ins # "ok") =>
          localHistory' = Take(<<newBroadcast>> \o localHistory, LocalCap)
    ]_vars

SelectFailures == {"PGRST205", "error", "throw"}

\* C27: a getBroadcasts whose select returns an error or throws, with a
\* readable localStorage, returns the local history as it is, without
\* raising, and changes nothing in the service's state.
C27_FailedSelectServedLocally ==
  [][(op' = "getBroadcasts" /\ inp'.sel \in SelectFailures
        /\ inp'.ls # "unavailable") =>
       /\ ~raised'
       /\ ret' = localHistory
       /\ UNCHANGED svcVars
    ]_vars

\* The select threw while the remote table and the local history each held
\* a different broadcast, and the local one was returned.
C27_Witness ==
  /\ op = "getBroadcasts"
  /\ inp.sel = "throw"
  /\ attempted
  /\ ~raised
  /\ Len(ret) = 1
  /\ ret = localHistory
  /\ remoteBroadcasts # <<>>
  /\ Head(remoteBroadcasts).content # Head(ret).script

\* The fields of a Broadcast that a mapping takes from the row.
RowFields(b) ==
  [id |-> b.id, script |-> b.script, audioData |-> b.audioData,
   mode |-> b.mode, createdAt |-> b.createdAt]

\* C28: the Broadcast the channel's handler makes of a row and the
\* Broadcast getBroadcasts makes of the same row agree in every field
\* taken from the row, whichever column holds the audio.
C28_MappingsAgree ==
  (live # NoBroadcast /\ listed # NoBroadcast) =>
     RowFields(live) = RowFields(listed)

\* C29: saveBroadcast is not called, and nothing is written to the remote
\* tables, the local history or a quota record, for a bundle the generator
\* returned without its audio payload.
C29_IncompleteBundleNotPersisted ==
  [][(op' = "saveBroadcast" /\ newBroadcast.audioData = NoAudio) =>
       /\ remoteBroadcasts' = remoteBroadcasts
       /\ localHistory' = localHistory
       /\ remoteQuota' = remoteQuota
       /\ localQuota' = localQuota
    ]_vars

\* The record a getQuota step looks for does not exist: the remote row,
\* when the select returns; the local record, when the remote is not asked
\* or the select throws.
QuotaRecordAbsent ==
  \/ RemoteViable(Svc) /\ inp'.sel \in {"ok", "PGRST205", "error"}
       /\ remoteQuota = NoQuota
  \/ inp'.sel \in {"-", "throw"} /\ localQuota = NoQuota

\* C30: a getQuota call that finds no record, with a readable localStorage,
\* returns count 0 and resetAt = call time + 24 h and does not raise.
C30_NoRecordIsFreshQuota ==
  [][(op' = "getQuota" /\ inp'.ls # "unavailable" /\ QuotaRecordAbsent) =>
       (~raised' /\ ret' = Refreshed(now))]_vars

\* After a broadcast was saved and a day went by, the remote select found
\* no quota row while a local record with a count existed.
C30_Witness ==
  /\ op = "getQuota"
  /\ inp.sel = "ok"
  /\ attempted
  /\ ~raised
  /\ now > 0
  /\ remoteQuota = NoQuota
  /\ Count(localQuota) = 1
  /\ ret = Refreshed(now)

\* C31: a getQuota step changes neither broadcast store; it changes a quota
\* record only when that record's window has elapsed, and then to the
\* refreshed state.
C31_GetQuotaOnlyRollsOver ==
  [][op' = "getQuota" =>
       /\ localHistory' = localHistory
       /\ remoteBroadcasts' = remoteBroadcasts
       /\ remoteQuota' # remoteQuota =>
            (Stale(remoteQuota, now) /\ remoteQuota' = Refreshed(now))
       /\ localQuota' # localQuota =>
            (Stale(localQuota, now) /\ localQuota' = Refreshed(now))
    ]_vars

\* A local record with a count was read a tick after it was written, inside
\* its window, and returned as it is.
C31_Witness ==
  /\ op = "getQuota"
  /\ inp.sel \in {"-", "throw"}
  /\ ~raised
  /\ now = 1
  /\ Count(localQuota) = 1
  /\ localQuota.resetAt = 1
  /\ ret = localQuota

\* C32: the quota upsert of a session writes the count that session read
\* plus one, whatever the row holds when the upsert arrives; nothing
\* serializes the read-increment-upsert of two sessions, and the remote
\* count can fall behind the rows inserted.
C32_UpsertWritesStaleRead ==
  [][\A i \in Sessions :
       (sessPc[i] = "write" /\ sessPc'[i] = "idle") =>
          /\ remoteQuota'.count = sessQuota[i].count + 1
          /\ remoteQuota'.resetAt = sessQuota[i].resetAt
    ]_vars

\* The lost update: after one save, the two sessions each saved once more,
\* all three inserts and upserts succeeded, and the count is 2.
C32_Witness ==
  /\ \A i \in Sessions : sessPc[i] = "idle"
  /\ Len(remoteBroadcasts) = 3
  /\ localHistory = <<>>
  /\ sessQuota[1].count = 1
  /\ sessQuota[2].count = 1
  /\ remoteQuota.count = 2

\* C33: with working local storage, a saveBroadcast step adds the broadcast
\* either as one row of the remote table or as the head of the local
\* history, and never to both or to neither.
C33_ExactlyOneStore ==
  [][(op' = "saveBroadcast" /\ inp'.ls = "ok" /\ ~raised') =>
       LET toRemote == /\ Len(remoteBroadcasts') = Len(remoteBroadcasts) + 1
                       /\ Head(remoteBroadcasts').content = newBroadcast.script
           toLocal == /\ localHistory' # localHistory
                      /\ Head(localHistory') = newBroadcast
       IN /\ toRemote \/ toLocal
          /\ ~(toRemote /\ toLocal)
          /\ toRemote \/ remoteBroadcasts' = remoteBroadcasts
          /\ toLocal \/ localHistory' = localHistory
    ]_vars

\* C34: within one window, the count a getQuota call returns is the number
\* of saveBroadcast calls completed so far.  Stated for the reads whose own
\* select did not fail.
C34_CountIsSavesCompleted ==
  (op = "getQuota" /\ ~raised /\ inp.sel \in {"ok", "-"}) => ret.count = saved

\* C35: of two scheduled items, the one whose broadcast was delivered to
\* queueAndPlay first does not start later than the other, and ends before
\* the other starts.
C35_PlayInDeliveryOrder ==
  \A i, j \in 1..Len(sources) :
    sources[i].seq < sources[j].seq =>
      /\ sources[i].start <= sources[j].start
      /\ End(sources[i]) <= sources[j].start

\* Two calls were waiting at their await at the same time, and a third
\* broadcast, delivered between them, had no audio that decodes.
C35_Witness ==
  /\ Len(sources) = 2
  /\ sources[1].seq = 1
  /\ sources[2].seq = 3
  /\ sources[2].called <= sources[1].sched
  /\ sources[2].prev = 0
  /\ sources[2].start = End(sources[1])

\* C36: the completion callback of a source that playBroadcast stopped leaves
\* the radio state at PLAYING when another source is playing.
C36_StoppedSourceKeepsPlaying ==
  [][(\E i \in 1..Len(appSources) :
        /\ appSources[i] = "stopped"
        /\ appSources'[i] = "done"
        /\ \E j \in 1..Len(appSources) : appSources'[j] = "playing")
     => radioState' = "PLAYING"]_vars

\* Nothing is scheduled: no call waits at its await and every source that
\* was started has had its ended event delivered.
NothingScheduled ==
  /\ decoding = <<>>
  /\ \A i \in 1..Len(sources) : sources[i].ended

\* C37: under fair scheduling the listener is, from some point on, never at
\* PLAYING with nothing scheduled.
C37_EventuallyIdleWhenDone ==
  <>[](NothingScheduled => obsRadioState # "PLAYING")

\* C38: at most one handleGenerate call of the session is at its
\* generateBroadcastData call at any time.
C38_OneGenerationInFlight ==
  Cardinality({c \in Calls : hgPc[c] = "generate"}) <= 1

\* C39: once the channel is unsubscribed it stays so, and no step invokes
\* the callback or calls queueAndPlay.
C39_NoCallbackAfterUnsubscribe ==
  [][channel = "closed" =>
       /\ channel' = "closed"
       /\ callbacks' = callbacks
       /\ delivered' = delivered
       /\ feed' = <<>>]_vars

\* The callback ran while the channel was open, the effect's cleanup ran, and
\* a row was inserted afterwards.
C39_Witness ==
  /\ channel = "closed"
  /\ subViable
  /\ Len(callbacks) = emitted
  /\ emitted >= 1
  /\ missed >= 1
  /\ delivered = emitted

====
